---- MODULE Spec2Model ----
(***************************************************************************)
(* A model of zestack/log's rendering core: the flat TextHandler and the   *)
(* IndentHandler, their derivation (WithGroup / WithAttrs), the shared     *)
(* attribute resolver appendAttr and the mutex guarded sink write.         *)
(*                                                                         *)
(* Byte strings are sequences of one-character strings.  A terminal escape *)
(* sequence of the color package is one element ("<dim>", "<reset>", ...). *)
(***************************************************************************)
EXTENDS Integers, Sequences, FiniteSets, TLC

(* ------------------------------ bounds -------------------------------- *)
MaxHandlers == 4      \* formatters in a tree (Spec)
MaxChain == 3         \* formatters in a tree (SpecRender)
MaxConc == 2          \* formatters in a tree (SpecConc)
MaxMsgLen == 4        \* characters of a message (SpecMsg)
MaxWrites == 3        \* Handle calls started (SpecConc)
MaxOffset == 12       \* distance of a Level from the named range (SpecLevel)
MaxLoggers == 2       \* loggers made by New, With and WithGroup (SpecLogger)
MaxPrefix == 4        \* prefix loggers made by New, With and WithPrefix (SpecPrefix)
MaxStr == 5           \* bytes of the string given to overflow (SpecOverflow)
MaxWidth == 6         \* the width given to overflow (SpecOverflow)
IntBits == 6          \* bits of an int in overflow (SpecOverflow)

VARIABLES
    opts,        \* the root's HandlerOptions and which pipeline the tree uses
    handlers,    \* the formatter tree: a sequence of handler structs
    heap,        \* backing arrays of the preformatted slices, by owner
    snap,        \* per handler: what Handle rendered for ProbeRecord at creation
    op,          \* the Handle call just made: handler and record, else NoOp
    written,     \* the bytes that call passed to out.Write
    calls,       \* the ReplaceAttr invocations of that call
    panicked,    \* TRUE once a call terminated abnormally
    pc,          \* per goroutine: position inside Handle
    job,         \* per goroutine: handler, record id and rendered buffer
    mutexes,     \* per mutex: the goroutine holding it, 0 if free
    writing,     \* goroutines currently inside out.Write
    sink,        \* the bytes the sink has received, each tagged with its Write
    msg,         \* message pipeline input
    msgOut,      \* message pipeline output
    level,       \* a Level value and what its text forms parse back to
    loggers,     \* the loggers of the owning layer
    logged,      \* the log call just made and the record it emitted
    arrays,      \* backing arrays of the loggers' attribute slices
    ovf,         \* the overflow call in progress
    pool         \* the buffer pool and the buffers borrowed from it

vars == <<opts, handlers, heap, snap, op, written, calls, panicked,
          pc, job, mutexes, writing, sink, msg, msgOut,
          level, loggers, logged, arrays, ovf, pool>>

\* the formatter layer, and the layers around it
core == <<opts, handlers, heap, snap, op, written, calls, panicked,
          pc, job, mutexes, writing, sink, msg, msgOut>>
outer == <<level, loggers, logged, arrays, ovf, pool>>

(* --------------------------- byte strings ----------------------------- *)
NL == "\n"
QUOTE == "\""

RECURSIVE Flatten(_)
Flatten(ss) == IF ss = <<>> THEN <<>> ELSE Head(ss) \o Flatten(Tail(ss))

Spaces(n) == [i \in 1..n |-> " "]

IsPrefix(p, s) == Len(p) <= Len(s) /\ SubSeq(s, 1, Len(p)) = p

IsSuffix(p, s) == Len(p) <= Len(s) /\ SubSeq(s, Len(s) - Len(p) + 1, Len(s)) = p

Drop(s, n) == SubSeq(s, n + 1, Len(s))

\* strings.IndexByte, 1-based; 0 when c does not occur (Go: -1)
IndexByte(s, c) ==
    IF \E i \in 1..Len(s) : s[i] = c
    THEN CHOOSE i \in 1..Len(s) : s[i] = c /\ \A j \in 1..(i - 1) : s[j] # c
    ELSE 0

Contains(s, c) == IndexByte(s, c) # 0

\* unicode.IsSpace restricted to ASCII
IsSpace(c) == c \in {" ", "\t", "\n", "\r", "\f"}

RECURSIVE TrimLeft(_)
TrimLeft(s) == IF s # <<>> /\ IsSpace(Head(s)) THEN TrimLeft(Tail(s)) ELSE s

RECURSIVE TrimRight(_)
TrimRight(s) ==
    IF s # <<>> /\ IsSpace(s[Len(s)]) THEN TrimRight(SubSeq(s, 1, Len(s) - 1)) ELSE s

TrimSpaceKeep(s) == s

TrimSpace(s) == TrimRight(TrimLeft(s))

\* strings.TrimSuffix
TrimSuffix(s, suf) == IF IsSuffix(suf, s) THEN SubSeq(s, 1, Len(s) - Len(suf)) ELSE s

Digit(d) == CASE d = 0 -> "0" [] d = 1 -> "1" [] d = 2 -> "2" [] d = 3 -> "3"
              [] d = 4 -> "4" [] d = 5 -> "5" [] d = 6 -> "6" [] d = 7 -> "7"
              [] d = 8 -> "8" [] d = 9 -> "9"

RECURSIVE NatToStr(_)
NatToStr(n) == IF n < 10 THEN <<Digit(n)>> ELSE NatToStr(n \div 10) \o <<Digit(n % 10)>>

\* strconv.AppendInt(_, n, 10) / fmt %d
Itoa(n) == IF n < 0 THEN <<"-">> \o NatToStr(0 - n) ELSE NatToStr(n)

\* strconv.AppendQuote for strings without characters that need escaping
Quote(s) == <<QUOTE>> \o s \o <<QUOTE>>

(* ------------------------ attributes and values ----------------------- *)
TimeKey == <<"t", "i", "m", "e">>
LevelKey == <<"l", "e", "v", "e", "l">>
MessageKey == <<"m", "s", "g">>
SourceKey == <<"s", "o", "u", "r", "c", "e">>

NoPayload == [type |-> "nil", n |-> 0]

Attr(k, v) == [key |-> k, value |-> v]
StringValue(s) == [kind |-> "String", v |-> s]
IntValue(n) == [kind |-> "Int64", v |-> n]
TimeValue(t) == [kind |-> "Time", v |-> t]
GroupValue(as) == [kind |-> "Group", v |-> as]
\* slog.Any(k, slog.Level): AnyValue has no case for slog.Level, the kind is KindAny
LevelValue(l) == [kind |-> "Any", v |-> [type |-> "Level", n |-> l]]
\* the zero Value: KindAny holding nil
NilValue == [kind |-> "Any", v |-> NoPayload]
EmptyAttr == Attr(<<>>, NilValue)
\* slog.Attr.Equal(slog.Attr{})
IsEmptyAttr(a) == a.key = <<>> /\ a.value.kind = "Any" /\ a.value.v.type = "nil"
\* the dynamic type test of a.Value.Any().(slog.Level)
IsLevelValue(v) == v.kind = "Any" /\ v.v.type = "Level"

String(k, s) == Attr(k, StringValue(s))
Int64(k, n) == Attr(k, IntValue(n))
Group(k, as) == Attr(k, GroupValue(as))

(* ------------------------------ levels -------------------------------- *)
LevelTrace == 0
LevelDebug == 1
LevelInfo == 2
LevelWarn == 3
LevelError == 4
LevelPanic == 5
LevelFatal == 6

\* Go's integer division truncates toward zero
QuoT(a, b) == IF a >= 0 THEN a \div b ELSE 0 - ((0 - a) \div b)

parseSlogLevel(l) == QuoT(l, 4) + LevelInfo

Level_String(l) ==
    CASE l = LevelTrace -> <<"T", "R", "A", "C", "E">>
      [] l = LevelDebug -> <<"D", "E", "B", "U", "G">>
      [] l = LevelInfo -> <<"I", "N", "F", "O">>
      [] l = LevelWarn -> <<"W", "A", "R", "N">>
      [] l = LevelError -> <<"E", "R", "R", "O", "R">>
      [] l = LevelPanic -> <<"P", "A", "N", "I", "C">>
      [] l = LevelFatal -> <<"F", "A", "T", "A", "L">>
      [] l < LevelTrace -> <<"T", "R", "A", "C", "E", "-">> \o Itoa(l - LevelTrace)
      [] OTHER -> <<"F", "A", "T", "A", "L", "+">> \o Itoa(l - LevelFatal)

\* slog.Level.String of the standard library
SlogLevelString(l) ==
    LET str(base, val) ==
            IF val = 0 THEN base
            ELSE base \o (IF val > 0 THEN <<"+">> ELSE <<>>) \o Itoa(val)
    IN CASE l < 0 -> str(<<"D", "E", "B", "U", "G">>, l + 4)
         [] l < 4 -> str(<<"I", "N", "F", "O">>, l)
         [] l < 8 -> str(<<"W", "A", "R", "N">>, l - 4)
         [] OTHER -> str(<<"E", "R", "R", "O", "R">>, l - 8)

\* strings.ToUpper on ASCII
LowerCase == <<"a", "b", "c", "d", "e", "f", "g", "h", "i", "j", "k", "l", "m",
               "n", "o", "p", "q", "r", "s", "t", "u", "v", "w", "x", "y", "z">>
UpperCase == <<"A", "B", "C", "D", "E", "F", "G", "H", "I", "J", "K", "L", "M",
               "N", "O", "P", "Q", "R", "S", "T", "U", "V", "W", "X", "Y", "Z">>
ToUpper(s) ==
    [i \in 1..Len(s) |->
        IF \E k \in 1..26 : LowerCase[k] = s[i]
        THEN UpperCase[CHOOSE k \in 1..26 : LowerCase[k] = s[i]]
        ELSE s[i]]

\* strings.IndexAny, 1-based; 0 when none of cs occurs (Go: -1)
IndexAny(s, cs) ==
    IF \E i \in 1..Len(s) : s[i] \in cs
    THEN CHOOSE i \in 1..Len(s) : s[i] \in cs /\ \A j \in 1..(i - 1) : s[j] \notin cs
    ELSE 0

IsDigit(c) == c \in {"0", "1", "2", "3", "4", "5", "6", "7", "8", "9"}
DigitVal(c) == CHOOSE d \in 0..9 : Digit(d) = c

RECURSIVE DigitsVal(_)
DigitsVal(ds) ==
    IF ds = <<>> THEN 0
    ELSE 10 * DigitsVal(SubSeq(ds, 1, Len(ds) - 1)) + DigitVal(ds[Len(ds)])

\* strconv.Atoi: an optional sign and at least one decimal digit
Atoi(s) ==
    LET signed == s # <<>> /\ s[1] \in {"+", "-"}
        ds == IF signed THEN Tail(s) ELSE s
    IN IF ds = <<>> \/ \E i \in 1..Len(ds) : ~IsDigit(ds[i])
       THEN [n |-> 0, err |-> TRUE]
       ELSE [n |-> IF s[1] = "-" THEN 0 - DigitsVal(ds) ELSE DigitsVal(ds),
             err |-> FALSE]

LevelNames ==
    << <<"T", "R", "A", "C", "E">>, <<"D", "E", "B", "U", "G">>, <<"I", "N", "F", "O">>,
       <<"W", "A", "R", "N">>, <<"E", "R", "R", "O", "R">>, <<"P", "A", "N", "I", "C">>,
       <<"F", "A", "T", "A", "L">> >>

\* the level and whether an error is returned
parseStringLevel(s) ==
    LET i == IndexAny(s, {"+", "-"})
        name == IF i > 0 THEN SubSeq(s, 1, i - 1) ELSE s
        offset == IF i > 0 THEN Atoi(Drop(s, i - 1)) ELSE [n |-> 0, err |-> FALSE]
        known == {k \in 1..7 : LevelNames[k] = ToUpper(name)}
    IN IF offset.err \/ known = {} THEN [l |-> 0, err |-> TRUE]
       ELSE [l |-> (LevelTrace + (CHOOSE k \in known : TRUE) - 1) + offset.n,
             err |-> FALSE]

Level_MarshalJSON(l) == Quote(Level_String(l))

\* strconv.Unquote of a double-quoted string without escapes
Unquote(data) ==
    IF /\ Len(data) >= 2
       /\ data[1] = QUOTE /\ data[Len(data)] = QUOTE
       /\ \A i \in 2..(Len(data) - 1) : data[i] \notin {QUOTE, "\\", NL}
    THEN [s |-> SubSeq(data, 2, Len(data) - 1), err |-> FALSE]
    ELSE [s |-> <<>>, err |-> TRUE]

\* the receiver after the call, starting from l0, and whether an error is returned
Level_UnmarshalJSON(l0, data) ==
    LET u == Unquote(data)
        v == parseStringLevel(u.s)
    IN IF u.err \/ v.err THEN [l |-> l0, err |-> TRUE] ELSE [l |-> v.l, err |-> FALSE]

Level_MarshalText(l) == Level_String(l)

Level_UnmarshalText(l0, data) ==
    LET v == parseStringLevel(data)
    IN IF v.err THEN [l |-> l0, err |-> TRUE] ELSE [l |-> v.l, err |-> FALSE]

levelToString(l) == Level_String(parseSlogLevel(l))

\* the level mnemonic in its color, and the one-space padding of the short names
levelToColor(l) ==
    LET name == Level_String(parseSlogLevel(l))
    IN [level |-> <<"<level>">> \o name \o <<"<reset>">>,
        prepend |-> IF Len(name) = 4 THEN <<" ">> ELSE <<>>]

(* ------------------------------ styling ------------------------------- *)
sDefault == <<"<default>">>
sDim == <<"<dim>">>
cReset == <<"<reset>">>
Glyph == <<"<glyph>">>
cDimWrap(s) == sDim \o s \o cReset
cYearWrap(s) == <<"<year>">> \o s \o cReset
cHourWrap(s) == <<"<hour>">> \o s \o cReset
Namespace(s) == <<"<ns>">> \o s \o cReset

\* time.Time.Format(time.DateTime) split at its blank: date and time of day
FormatDate(t) == <<"D">> \o Itoa(t)
FormatClock(t) == <<"C">> \o Itoa(t)
\* time.Time.AppendFormat(_, time.RFC3339Nano)
FormatRFC3339(t) == FormatDate(t) \o <<"T">> \o FormatClock(t) \o <<"Z">>

RECURSIVE ValueString(_)
RECURSIVE AttrsString(_)
\* slog.Value.String
ValueString(v) ==
    CASE v.kind = "String" -> v.v
      [] v.kind = "Int64" -> Itoa(v.v)
      [] v.kind = "Time" -> FormatRFC3339(v.v)
      [] v.kind = "Group" -> <<"[">> \o AttrsString(v.v) \o <<"]">>
      [] v.kind = "Any" ->
            IF v.v.type = "Level" THEN SlogLevelString(v.v.n)
            ELSE <<"<", "n", "i", "l", ">">>
AttrsString(as) ==
    IF as = <<>> THEN <<>>
    ELSE Head(as).key \o <<"=">> \o ValueString(Head(as).value)
         \o (IF Len(as) > 1 THEN <<" ">> ELSE <<>>) \o AttrsString(Tail(as))

(* --------------------- buffers, slices and append --------------------- *)
\* A slice is [arr, len, cap]; arr names the handler whose creation allocated the
\* backing array (0: nil slice).  PoolArr marks a pooled buffer private to one
\* Handle call.  Intermediate arrays of one WithAttrs call are garbage at once,
\* so the call's last array stands for all of them.
PoolArr == -1
NilSlice == [arr |-> 0, len |-> 0, cap |-> 0]
Zero == "\\0"

SizeClasses == {8, 16, 24, 32, 48, 64, 80, 96, 112, 128, 144, 160, 176, 192, 208,
                224, 240, 256}

\* runtime.roundupsize
roundupsize(n) ==
    IF \E c \in SizeClasses : c >= n
    THEN CHOOSE c \in SizeClasses : c >= n /\ \A d \in SizeClasses : d >= n => c <= d
    ELSE n

\* runtime.growslice for a byte slice
growslice(oldcap, needed) ==
    roundupsize(IF needed > 2 * oldcap THEN needed ELSE 2 * oldcap)

ClipKeep(sl) == sl

\* slices.Clip: s[:len(s):len(s)]
Clip(sl) == [sl EXCEPT !.cap = sl.len]

SliceBytes(hp, sl) == IF sl.len = 0 THEN <<>> ELSE SubSeq(hp[sl.arr], 1, sl.len)

\* The state threaded through one rendering call: the heap, the buffer being
\* appended to (its array, logical content and capacity), the array a
\* reallocation creates, whether the call panicked and the hook invocations.
Buffer(hp, sl, new) ==
    [heap |-> hp, arr |-> sl.arr, buf |-> SliceBytes(hp, sl), cap |-> sl.cap,
     new |-> new, panic |-> FALSE, calls |-> <<>>]

PoolBuffer(hp) ==
    [heap |-> hp, arr |-> PoolArr, buf |-> <<>>, cap |-> 0,
     new |-> 0, panic |-> FALSE, calls |-> <<>>]

SliceOf(st) == [arr |-> st.arr, len |-> Len(st.buf), cap |-> st.cap]

\* buf = append(buf, x...)
App(st, x) ==
    IF st.panic \/ x = <<>> THEN st
    ELSE IF st.arr = PoolArr THEN [st EXCEPT !.buf = @ \o x]
    ELSE LET n == Len(st.buf)
             need == n + Len(x)
         IN IF need <= st.cap
            THEN LET old == st.heap[st.arr]
                 IN [st EXCEPT !.buf = @ \o x,
                               !.heap[st.arr] =
                                   [i \in 1..Len(old) |->
                                       IF i > n /\ i <= need THEN x[i - n] ELSE old[i]]]
            ELSE LET c == growslice(st.cap, need)
                 IN [st EXCEPT !.buf = @ \o x, !.arr = st.new, !.cap = c,
                               !.heap[st.new] =
                                   (st.buf \o x) \o [i \in 1..(c - need) |-> Zero]]

Panic(st) == [st EXCEPT !.panic = TRUE]

(* ---------------------------- ReplaceAttr ----------------------------- *)
Hooks == {"none", "id", "str"}

\* The rewrite hooks a caller may configure: "id" returns its argument, "str"
\* replaces the value by the string "s", "drop" discards the attribute keyed c
\* by returning the zero Attr.
ReplaceAttr(hook, groups, a) ==
    IF hook = "str" THEN Attr(a.key, StringValue(<<"s">>))
    ELSE IF hook = "drop" /\ a.key = <<"c">> THEN EmptyAttr
    ELSE a

HookCall(groups, a) == [groups |-> groups, attr |-> a]

(* ------------------------ TextHandler.appendAttr ---------------------- *)
Margin == sDim \o <<" ", " ", ">", " ">> \o cReset

RECURSIVE TextMessageLoop(_, _, _, _, _)
\* the for loop of the MessageKey case: out is what it appends to buf
TextMessageLoop(out, msgbuf, prepend, lines, m) ==
    LET out1 == IF lines = 1 THEN out \o cDimWrap(Glyph) \o <<NL>> ELSE out
        prepend1 == IF lines = 1 THEN Margin ELSE prepend
        msgbuf1 == (IF lines = 1 THEN prepend1 \o msgbuf ELSE msgbuf) \o prepend1
        index == IndexByte(m, NL)
    IN IF index = 0
       THEN [out |-> out1,
             msgbuf |-> msgbuf1 \o (IF lines > 1 THEN TrimSpace(m) ELSE m)
                                \o (IF lines > 1 THEN <<NL>> ELSE <<" ">>)]
       ELSE TextMessageLoop(out1,
                            msgbuf1 \o TrimSpace(SubSeq(m, 1, index - 1)) \o <<NL>>,
                            prepend1, lines + 1, Drop(m, index))

TextMessage(st, m) ==
    LET r == TextMessageLoop(<<>>, <<>>, <<>>, 0, m)
    IN App(App(App(App(st, sDefault), r.out), r.msgbuf), cReset)

RECURSIVE DottedGroups(_)
DottedGroups(gs) == IF gs = <<>> THEN <<>> ELSE Head(gs) \o <<".">> \o DottedGroups(Tail(gs))

RECURSIVE AppAll(_, _)
\* consecutive appends of the pieces of xs
AppAll(st, xs) == IF xs = <<>> THEN st ELSE AppAll(App(st, Head(xs)), Tail(xs))

RECURSIVE TextHandler_appendAttr(_, _, _)
RECURSIVE TextGroupMembers(_, _, _, _)

TextHandler_appendAttr(h, st, a0) ==
    IF st.panic THEN st
    ELSE
    LET hooked == opts.hook # "none" /\ a0.value.kind # "Group"
        a == IF hooked THEN ReplaceAttr(opts.hook, h.groups, a0) ELSE a0
        s0 == IF hooked THEN [st EXCEPT !.calls = Append(@, HookCall(h.groups, a0))]
              ELSE st
    IN IF IsEmptyAttr(a) THEN s0
       ELSE IF a.key = TimeKey THEN
            IF a.value.kind # "Time" THEN Panic(s0)
            ELSE AppAll(s0, << cYearWrap(FormatDate(a.value.v)) \o <<" ">>
                               \o cHourWrap(FormatClock(a.value.v)), <<" ">> >>)
       ELSE IF a.key = LevelKey THEN
            IF ~IsLevelValue(a.value) THEN Panic(s0)
            ELSE LET lc == levelToColor(a.value.v.n)
                 IN AppAll(s0, << cDimWrap(<<"|">>) \o <<" ">> \o lc.prepend \o lc.level
                                  \o <<" ">> \o cDimWrap(<<"|">>), <<" ">> >>)
       ELSE IF a.key = MessageKey THEN TextMessage(s0, ValueString(a.value))
       ELSE IF a.key = SourceKey THEN
            AppAll(s0, << cDimWrap(a.key \o <<"=", QUOTE>>),
                          Namespace(ValueString(a.value)), cDimWrap(<<QUOTE>>), <<" ">> >>)
       ELSE
       LET s1 == IF a.value.kind # "Group"
                 THEN AppAll(s0, [i \in 1..Len(h.groups) |-> h.groups[i] \o <<".">>])
                 ELSE s0
       IN CASE a.value.kind = "String" ->
                   AppAll(s1, <<a.key, <<"=">>, Quote(a.value.v), <<" ">> >>)
            [] a.value.kind = "Time" ->
                   AppAll(s1, <<a.key, <<"=">>, FormatRFC3339(a.value.v), <<" ">> >>)
            [] a.value.kind = "Group" ->
                   IF a.value.v = <<>> THEN s1
                   ELSE TextGroupMembers(h, s1,
                            IF a.key # <<>> THEN a.key \o <<".">> ELSE a.key, a.value.v)
            [] OTHER ->
                   AppAll(s1, <<a.key, <<"=">>, ValueString(a.value), <<" ">> >>)

TextGroupMembers(h, st, prefix, attrs) ==
    IF attrs = <<>> THEN st
    ELSE TextGroupMembers(h,
             TextHandler_appendAttr(h, st, Attr(prefix \o Head(attrs).key, Head(attrs).value)),
             prefix, Tail(attrs))

RECURSIVE TextAppendAttrs(_, _, _)
\* for _, a := range attrs { buf = h.appendAttr(buf, a) }
TextAppendAttrs(h, st, attrs) ==
    IF attrs = <<>> THEN st
    ELSE TextAppendAttrs(h, TextHandler_appendAttr(h, st, Head(attrs)), Tail(attrs))

(* ----------------------- IndentHandler.appendAttr --------------------- *)
RECURSIVE IndentMessageLoop(_, _, _, _, _, _)
IndentMessageLoop(out, msgbuf, indent, lines, m, indentLevel) ==
    LET indent1 == IF lines = 1 THEN indent \o Spaces((indentLevel + 1) * 4) ELSE indent
        msgbuf1 == (IF lines = 1 THEN indent1 \o msgbuf ELSE msgbuf) \o indent1
        out1 == IF lines = 1 THEN out \o <<">", "-", NL>> ELSE out
        index == IndexByte(m, NL)
    IN IF index = 0
       THEN [out |-> out1,
             msgbuf |-> msgbuf1 \o TrimSuffix(m, <<" ", "\r", NL>>) \o <<NL>>]
       ELSE IndentMessageLoop(out1, msgbuf1 \o SubSeq(m, 1, index - 1) \o <<NL>>,
                              indent1, lines + 1, Drop(m, index), indentLevel)

IndentMessage(st, m, indentLevel) ==
    LET r == IndentMessageLoop(<<>>, <<>>, <<>>, 0, m, indentLevel)
    IN App(App(st, r.out), r.msgbuf)

RECURSIVE appendUnopenedGroups(_, _, _)
appendUnopenedGroups(st, groups, indentLevel) ==
    IF groups = <<>> THEN st
    ELSE appendUnopenedGroups(
             App(st, Spaces(indentLevel * 4) \o Head(groups) \o <<":", NL>>),
             Tail(groups), indentLevel + 1)

RECURSIVE IndentHandler_appendAttr(_, _, _, _)
RECURSIVE IndentGroupMembers(_, _, _, _)

IndentHandler_appendAttr(h, st, a0, indentLevel) ==
    IF st.panic THEN st
    ELSE
    LET hooked == opts.hook # "none" /\ a0.value.kind # "Group"
        a == IF hooked THEN ReplaceAttr(opts.hook, h.unopenedGroups, a0) ELSE a0
        s0 == IF hooked
              THEN [st EXCEPT !.calls = Append(@, HookCall(h.unopenedGroups, a0))]
              ELSE st
    IN IF IsEmptyAttr(a) THEN s0
       ELSE
       LET s1 == IF a.value.kind # "Group" THEN AppAll(s0, <<a.key, <<":", " ">> >>)
                 ELSE s0
       IN IF a.key = MessageKey THEN IndentMessage(s1, ValueString(a.value), indentLevel)
          ELSE IF a.key = LevelKey THEN
               IF ~IsLevelValue(a.value) THEN Panic(s1)
               ELSE AppAll(s1, <<levelToString(a.value.v.n), <<NL>> >>)
          ELSE IF a.key = SourceKey THEN AppAll(s1, <<ValueString(a.value), <<NL>> >>)
          ELSE
          LET s2 == App(s1, Spaces(indentLevel * 4))
          IN CASE a.value.kind = "String" -> AppAll(s2, <<Quote(a.value.v), <<NL>> >>)
               [] a.value.kind = "Time" ->
                      AppAll(s2, <<FormatRFC3339(a.value.v), <<NL>> >>)
               [] a.value.kind = "Group" ->
                      IF a.value.v = <<>> THEN s2
                      ELSE IF a.key # <<>>
                           THEN IndentGroupMembers(h, App(s2, a.key \o <<":", NL>>),
                                                   a.value.v, indentLevel + 1)
                           ELSE IndentGroupMembers(h, s2, a.value.v, indentLevel)
               [] OTHER -> AppAll(s2, <<ValueString(a.value), <<NL>> >>)

IndentGroupMembers(h, st, attrs, indentLevel) ==
    IF attrs = <<>> THEN st
    ELSE IndentGroupMembers(h, IndentHandler_appendAttr(h, st, Head(attrs), indentLevel),
                            Tail(attrs), indentLevel)

(* -------------------------------- Handle ------------------------------ *)
\* runtime.CallersFrames(r.PC): file ":" line of the call site
SourceText == <<"f", ":">> \o Itoa(1)

\* One step of Handle's body: an appendAttr call at an indent level, a plain
\* append, or appendUnopenedGroups.
AttrItem(a, lvl) == [t |-> "attr", a |-> a, lvl |-> lvl, x |-> <<>>]
RawItem(x) == [t |-> "raw", a |-> EmptyAttr, lvl |-> 0, x |-> x]
GroupsItem(gs, lvl) == [t |-> "groups", a |-> EmptyAttr, lvl |-> lvl, x |-> gs]

OnlyIf(cond, items) == IF cond THEN items ELSE <<>>

\* the appends of TextHandler.Handle, in program order
TextHandler_items(h, hp, r) ==
    LET multi == Contains(r.msg, NL)
    IN  OnlyIf(r.time # 0, <<AttrItem(Attr(TimeKey, TimeValue(r.time)), 0)>>)
     \o <<AttrItem(Attr(LevelKey, LevelValue(r.level)), 0),
          AttrItem(String(MessageKey, r.msg), 0)>>
     \o OnlyIf(opts.addSource /\ multi, <<RawItem(<<" ">>)>>)
     \o OnlyIf(opts.addSource, <<AttrItem(String(SourceKey, SourceText), 0)>>)
     \o OnlyIf(opts.addSource /\ multi, <<RawItem(<<NL, " ", " ">>)>>)
     \o <<RawItem(sDim), RawItem(SliceBytes(hp, h.preformatted))>>
     \o [k \in 1..Len(r.attrs) |-> AttrItem(r.attrs[k], 0)]
     \o <<RawItem(cReset), RawItem(<<NL>>)>>

\* the appends of IndentHandler.Handle, in program order
IndentHandler_items(h, hp, r) ==
        OnlyIf(r.time # 0, <<AttrItem(Attr(TimeKey, TimeValue(r.time)), 0)>>)
     \o <<AttrItem(Attr(LevelKey, LevelValue(r.level)), 0)>>
     \o OnlyIf(opts.addSource, <<AttrItem(String(SourceKey, SourceText), 0)>>)
     \o <<AttrItem(String(MessageKey, r.msg), 0),
          RawItem(SliceBytes(hp, h.preformatted))>>
     \o OnlyIf(Len(r.attrs) > 0, <<GroupsItem(h.unopenedGroups, h.indentLevel)>>)
     \o [k \in 1..Len(r.attrs) |->
            AttrItem(r.attrs[k], h.indentLevel + Len(h.unopenedGroups))]
     \o <<RawItem(<<"-", "-", "-", NL>>)>>

RECURSIVE Emit(_, _, _)
Emit(h, st, items) ==
    IF items = <<>> THEN st
    ELSE LET it == Head(items)
             s1 == CASE it.t = "raw" -> App(st, it.x)
                     [] it.t = "groups" -> appendUnopenedGroups(st, it.x, it.lvl)
                     [] OTHER ->
                          IF opts.kind = "Text" THEN TextHandler_appendAttr(h, st, it.a)
                          ELSE IndentHandler_appendAttr(h, st, it.a, it.lvl)
         IN Emit(h, s1, Tail(items))

\* Handle up to the sink write: the rendered buffer of the pipeline in use
render(h, hp, r) ==
    Emit(h, PoolBuffer(hp),
         IF opts.kind = "Text" THEN TextHandler_items(h, hp, r)
         ELSE IndentHandler_items(h, hp, r))

(* ------------------------------ inputs -------------------------------- *)
GroupNames == {<<"g">>}

\* the attribute list of the ReplaceAttr documentation
DocAttrs == <<Int64(<<"a">>, 1), Group(<<"g">>, <<Int64(<<"b">>, 2)>>), Int64(<<"c">>, 3)>>

\* a group holding an empty group and one member
NestedAttrs == <<Group(<<"g">>, <<Group(<<"e">>, <<>>), Int64(<<"x">>, 1)>>)>>

AttrLists ==
    << <<>>,
       <<Int64(<<"x">>, 7)>>,
       DocAttrs,
       NestedAttrs,
       <<String(MessageKey, <<"x">>)>>,
       <<Int64(LevelKey, 1)>> >>

Record(t, l, m, as) == [time |-> t, level |-> l, msg |-> m, attrs |-> as]

Records ==
    << Record(1, 4, <<"a", NL, "b">>, <<Int64(<<"c">>, 3)>>),
       Record(0, 0, <<"m">>, <<>>),
       Record(0, 0, <<"m">>, DocAttrs),
       Record(0, 0, <<"m">>, NestedAttrs),
       Record(0, 0, <<"m">>, <<String(MessageKey, <<"x">>)>>),
       Record(0, 0, <<"m">>, <<Int64(LevelKey, 1)>>) >>

ProbeRecord == Records[1]

\* the inputs of Spec: ordinary attributes; SpecRender draws from all of them
TreeLists == 1..3
TreeRecords == 1..2
TreeConfigs == [kind : {"Text", "Indent"}, hook : {"none", "id"}, addSource : {FALSE}]
Configs == [kind : {"Text", "Indent"}, hook : Hooks, addSource : BOOLEAN]

(* ----------------------------- derivation ----------------------------- *)
\* NewTextHandler / NewIndentHandler: no prefix, no groups, a mutex of its own.
\* parent, how and arg record where a formatter came from: the receiver, the
\* method, and the group name or the index of the attribute list.
NewHandler ==
    [preformatted |-> NilSlice, groups |-> <<>>, unopenedGroups |-> <<>>,
     indentLevel |-> 0, mu |-> 1, parent |-> 0, how |-> "New", arg |-> 0]

TextHandler_cloneOwnMutex(h) == [h EXCEPT !.mu = Len(handlers) + 1]

\* preformatted and groups are resliced ([:]), the mutex pointer is copied
TextHandler_clone(h) == h

\* groups is built by make and copy: a fresh array nothing else refers to, and
\* no code appends to a groups slice in place, so groups are held by value
TextHandler_WithGroup(h, name) ==
    [TextHandler_clone(h) EXCEPT !.groups = Append(h.groups, name)]

IndentHandler_WithGroupOpened(h, name) ==
    [h EXCEPT !.unopenedGroups = Append(@, name), !.indentLevel = @ + 1]

IndentHandler_WithGroup(h, name) == [h EXCEPT !.unopenedGroups = Append(@, name)]

\* the new handler and the buffer state its construction ended in
TextHandler_WithAttrs(h, attrs, hp, new) ==
    LET h2 == [h EXCEPT !.preformatted = Clip(h.preformatted)]
        st == TextAppendAttrs(h2, Buffer(hp, h2.preformatted, new), attrs)
    IN [h |-> [h2 EXCEPT !.preformatted = SliceOf(st)], st |-> st]

IndentHandler_WithAttrsKeepOpen(h, attrs, hp, new) ==
    LET pre == Clip(h.preformatted)
        s1 == appendUnopenedGroups(Buffer(hp, pre, new), h.unopenedGroups, h.indentLevel)
        h2 == [h EXCEPT !.indentLevel = @ + Len(h.unopenedGroups)]
        st == IndentGroupMembers(h2, s1, attrs, h2.indentLevel)
    IN [h |-> [h2 EXCEPT !.preformatted = SliceOf(st)], st |-> st]

IndentHandler_WithAttrs(h, attrs, hp, new) ==
    LET pre == Clip(h.preformatted)
        s1 == appendUnopenedGroups(Buffer(hp, pre, new), h.unopenedGroups, h.indentLevel)
        h2 == [h EXCEPT !.indentLevel = @ + Len(h.unopenedGroups),
                        !.unopenedGroups = <<>>]
        st == IndentGroupMembers(h2, s1, attrs, h2.indentLevel)
    IN [h |-> [h2 EXCEPT !.preformatted = SliceOf(st)], st |-> st]

Outcome(st) == [buf |-> st.buf, panic |-> st.panic]

NoOp == [h |-> 0, rec |-> 0]

\* the goroutines that log, and a goroutine outside Handle
Procs == {1, 2}
Idle == [h |-> 0, rec |-> 0, buf |-> <<>>]

Born(h, i, how, arg) == [h EXCEPT !.parent = i, !.how = how, !.arg = arg]

NotRendered == [by |-> "none", buf |-> <<>>]

\* no Level under conversion, no pool activity
NotParsed == [l |-> 0, err |-> FALSE, done |-> FALSE]
NoLevel == [l |-> 0, json |-> NotParsed, text |-> NotParsed]
NoPool == [room |-> 0, free |-> {}, call |-> <<>>]
NoLog == [logger |-> 0]
NoOverflow == [pc |-> "none"]

InitCore(configs, msgs) ==
    /\ opts \in configs
    /\ handlers = <<NewHandler>>
    /\ heap = << <<>> >>
    /\ snap = <<Outcome(render(NewHandler, << <<>> >>, ProbeRecord))>>
    /\ op = NoOp
    /\ written = <<>>
    /\ calls = <<>>
    /\ panicked = FALSE
    /\ pc = [g \in Procs |-> "idle"]
    /\ job = [g \in Procs |-> Idle]
    /\ mutexes = [m \in 1..(MaxHandlers + MaxChain + MaxConc) |-> 0]
    /\ writing = {}
    /\ sink = <<>>
    /\ msg \in msgs
    /\ msgOut = NotRendered

InitWith(configs, msgs) ==
    /\ InitCore(configs, msgs)
    /\ level = NoLevel
    /\ loggers = <<>>
    /\ logged = NoLog
    /\ arrays = <<>>
    /\ ovf = NoOverflow
    /\ pool = NoPool

Init == InitWith(TreeConfigs, {<<>>})

aux == <<pc, job, mutexes, writing, sink, msg, msgOut, outer>>

\* h.WithGroup(name): h itself for the empty name, else a new formatter
WithGroup(i, name) ==
    /\ ~panicked
    /\ IF name = <<>>
       THEN UNCHANGED <<handlers, heap, snap>>
       ELSE LET h2 == IF opts.kind = "Text"
                      THEN TextHandler_WithGroup(handlers[i], name)
                      ELSE IndentHandler_WithGroup(handlers[i], name)
                hp == Append(heap, <<>>)
            IN /\ handlers' = Append(handlers, Born(h2, i, "WithGroup", name))
               /\ heap' = hp
               /\ snap' = Append(snap, Outcome(render(h2, hp, ProbeRecord)))
    /\ op' = NoOp
    /\ written' = <<>>
    /\ calls' = <<>>
    /\ UNCHANGED <<opts, panicked, aux>>

\* h.WithAttrs(AttrLists[al]): h itself for the empty list, else a new formatter
WithAttrs(i, al) ==
    /\ ~panicked
    /\ IF AttrLists[al] = <<>>
       THEN UNCHANGED <<handlers, heap, snap, panicked>>
       ELSE LET new == Len(handlers) + 1
                r == IF opts.kind = "Text"
                     THEN TextHandler_WithAttrs(handlers[i], AttrLists[al],
                                                Append(heap, <<>>), new)
                     ELSE IndentHandler_WithAttrs(handlers[i], AttrLists[al],
                                                  Append(heap, <<>>), new)
            IN /\ panicked' = r.st.panic
               /\ IF r.st.panic
                  THEN /\ heap' = SubSeq(r.st.heap, 1, Len(handlers))
                       /\ UNCHANGED <<handlers, snap>>
                  ELSE /\ handlers' = Append(handlers, Born(r.h, i, "WithAttrs", al))
                       /\ heap' = r.st.heap
                       /\ snap' = Append(snap, Outcome(render(r.h, r.st.heap, ProbeRecord)))
    /\ op' = NoOp
    /\ written' = <<>>
    /\ calls' = <<>>
    /\ UNCHANGED <<opts, aux>>

\* h.Handle(ctx, Records[rec]) with nobody else logging: render, lock, Write, unlock
Handle(i, rec) ==
    /\ ~panicked
    /\ LET st == render(handlers[i], heap, Records[rec])
       IN /\ calls' = st.calls
          /\ panicked' = st.panic
          /\ written' = IF st.panic THEN <<>> ELSE st.buf
    /\ op' = [h |-> i, rec |-> rec]
    /\ UNCHANGED <<opts, handlers, heap, snap, aux>>

Next ==
    \/ \E i \in 1..Len(handlers), name \in GroupNames \cup {<<>>} :
          Len(handlers) < MaxHandlers /\ WithGroup(i, name)
    \/ \E i \in 1..Len(handlers), al \in TreeLists :
          Len(handlers) < MaxHandlers /\ WithAttrs(i, al)
    \/ \E i \in 1..Len(handlers), rec \in TreeRecords : Handle(i, rec)

Spec == Init /\ [][Next]_vars

InitRender == InitWith(Configs, {<<>>})

NextRender ==
    \/ \E i \in 1..Len(handlers), name \in GroupNames \cup {<<>>} :
          Len(handlers) < MaxChain /\ WithGroup(i, name)
    \/ \E i \in 1..Len(handlers), al \in 1..Len(AttrLists) :
          Len(handlers) < MaxChain /\ WithAttrs(i, al)
    \/ \E i \in 1..Len(handlers), rec \in 1..Len(Records) : Handle(i, rec)

SpecRender == InitRender /\ [][NextRender]_vars

\* SpecGroup: formatters with open groups handle records whose attributes a
\* rewrite hook may discard.
GroupLists == {2}
GroupRecords == {1, 2}
GroupConfigs == [kind : {"Text", "Indent"}, hook : {"none", "drop"}, addSource : {FALSE}]

InitGroup == InitWith(GroupConfigs, {<<>>})

NextGroup ==
    \/ \E i \in 1..Len(handlers), name \in GroupNames \cup {<<>>} :
          Len(handlers) < MaxChain /\ WithGroup(i, name)
    \/ \E i \in 1..Len(handlers), al \in GroupLists :
          Len(handlers) < MaxChain /\ WithAttrs(i, al)
    \/ \E i \in 1..Len(handlers), rec \in GroupRecords : Handle(i, rec)

SpecGroup == InitGroup /\ [][NextGroup]_vars

(* ------------------------------ level text --------------------------- *)
\* SpecLevel: a Level is marshalled to JSON and to text, and each form is
\* unmarshalled into a zero Level.
LevelInputs == (LevelTrace - MaxOffset)..(LevelFatal + MaxOffset)
QuietConfig == [kind : {"Text"}, hook : {"none"}, addSource : {FALSE}]

InitLevel ==
    /\ InitCore(QuietConfig, {<<>>})
    /\ level \in {[l |-> n, json |-> NotParsed, text |-> NotParsed] : n \in LevelInputs}
    /\ loggers = <<>>
    /\ logged = NoLog
    /\ arrays = <<>>
    /\ ovf = NoOverflow
    /\ pool = NoPool

Parsed(r) == [l |-> r.l, err |-> r.err, done |-> TRUE]

\* data, _ := l.MarshalJSON(); var v Level; err := v.UnmarshalJSON(data)
RoundTripJSON ==
    /\ ~level.json.done
    /\ level' = [level EXCEPT
                    !.json = Parsed(Level_UnmarshalJSON(0, Level_MarshalJSON(level.l)))]
    /\ UNCHANGED <<core, loggers, logged, arrays, ovf, pool>>

\* data, _ := l.MarshalText(); var v Level; err := v.UnmarshalText(data)
RoundTripText ==
    /\ ~level.text.done
    /\ level' = [level EXCEPT
                    !.text = Parsed(Level_UnmarshalText(0, Level_MarshalText(level.l)))]
    /\ UNCHANGED <<core, loggers, logged, arrays, ovf, pool>>

NextLevel == RoundTripJSON \/ RoundTripText

SpecLevel == InitLevel /\ [][NextLevel]_vars

(* ------------------------- message rendering -------------------------- *)
\* SpecMsg: appendAttr of both pipelines applied to the builtin message
\* attribute of a root formatter without hook, for every message over
\* MsgAlphabet of at most MaxMsgLen characters.
MsgAlphabet == {"a", "b", " ", NL}
Messages == UNION {[1..k -> MsgAlphabet] : k \in 0..MaxMsgLen}
MsgConfig == [kind : {"Text"}, hook : {"none"}, addSource : {FALSE}]
InitMsg == InitWith(MsgConfig, Messages)

\* buf = h.appendAttr(buf, slog.String(slog.MessageKey, r.Message)) of TextHandler
RenderTextMessage ==
    /\ msgOut' = [by |-> "Text",
                  buf |-> TextHandler_appendAttr(handlers[1], PoolBuffer(heap),
                                                 String(MessageKey, msg)).buf]
    /\ UNCHANGED <<opts, handlers, heap, snap, op, written, calls, panicked,
                   pc, job, mutexes, writing, sink, msg, outer>>

\* the same call of IndentHandler, at indent level 0
RenderIndentMessage ==
    /\ msgOut' = [by |-> "Indent",
                  buf |-> IndentHandler_appendAttr(handlers[1], PoolBuffer(heap),
                                                   String(MessageKey, msg), 0).buf]
    /\ UNCHANGED <<opts, handlers, heap, snap, op, written, calls, panicked,
                   pc, job, mutexes, writing, sink, msg, outer>>

NextMsg == RenderTextMessage \/ RenderIndentMessage

SpecMsg == InitMsg /\ [][NextMsg]_vars

(* --------------------------- concurrent Handle ------------------------ *)
\* SpecConc: goroutines log through formatters of one tree while the tree is
\* being derived.  Handle is split at its synchronisation points: rendering
\* into the pooled buffer, h.mu.Lock(), the sink's Write (which takes the buffer
\* in two pieces, so that overlapping Writes would show) and the deferred
\* h.mu.Unlock().
ConcLists == {2}
ConcRecords == {2}
ConcConfigs == [kind : {"Text", "Indent"}, hook : {"none"}, addSource : {FALSE}]

InitConc == InitWith(ConcConfigs, {<<>>})

Started ==
    Cardinality({g \in Procs : pc[g] # "idle"})
    + Cardinality({k \in 1..Len(sink) : sink[k].part = 2})

Chunk(g, part, bytes) ==
    [g |-> g, h |-> job[g].h, rec |-> job[g].rec, part |-> part, bytes |-> bytes]

conc == <<opts, handlers, heap, snap, op, written, calls, panicked, msg, msgOut, outer>>

\* Handle up to the lock: the record is rendered into the call's own buffer
Render(g, i, rec) ==
    /\ pc[g] = "idle"
    /\ Started < MaxWrites
    /\ LET st == render(handlers[i], heap, Records[rec])
       IN /\ ~st.panic
          /\ job' = [job EXCEPT ![g] = [h |-> i, rec |-> rec, buf |-> st.buf]]
    /\ pc' = [pc EXCEPT ![g] = "rendered"]
    /\ UNCHANGED <<conc, mutexes, writing, sink>>

\* h.mu.Lock()
Lock(g) ==
    /\ pc[g] = "rendered"
    /\ mutexes[handlers[job[g].h].mu] = 0
    /\ mutexes' = [mutexes EXCEPT ![handlers[job[g].h].mu] = g]
    /\ pc' = [pc EXCEPT ![g] = "locked"]
    /\ UNCHANGED <<conc, job, writing, sink>>

\* h.out.Write(buf) is entered: the sink takes the first half of buf
WriteBegin(g) ==
    /\ pc[g] = "locked"
    /\ writing' = writing \cup {g}
    /\ sink' = Append(sink, Chunk(g, 1, SubSeq(job[g].buf, 1, Len(job[g].buf) \div 2)))
    /\ pc' = [pc EXCEPT ![g] = "writing"]
    /\ UNCHANGED <<conc, job, mutexes>>

\* the sink takes the rest and Write returns
WriteEnd(g) ==
    /\ pc[g] = "writing"
    /\ writing' = writing \ {g}
    /\ sink' = Append(sink, Chunk(g, 2, Drop(job[g].buf, Len(job[g].buf) \div 2)))
    /\ pc' = [pc EXCEPT ![g] = "written"]
    /\ UNCHANGED <<conc, job, mutexes>>

\* the deferred h.mu.Unlock(), and Handle returns
Unlock(g) ==
    /\ pc[g] = "written"
    /\ mutexes' = [mutexes EXCEPT ![handlers[job[g].h].mu] = 0]
    /\ pc' = [pc EXCEPT ![g] = "idle"]
    /\ job' = [job EXCEPT ![g] = Idle]
    /\ UNCHANGED <<conc, writing, sink>>

NextConc ==
    \/ \E i \in 1..Len(handlers), name \in GroupNames :
          Len(handlers) < MaxConc /\ WithGroup(i, name)
    \/ \E i \in 1..Len(handlers), al \in ConcLists :
          Len(handlers) < MaxConc /\ WithAttrs(i, al)
    \/ \E g \in Procs, i \in 1..Len(handlers), rec \in ConcRecords : Render(g, i, rec)
    \/ \E g \in Procs : Lock(g)
    \/ \E g \in Procs : WriteBegin(g)
    \/ \E g \in Procs : WriteEnd(g)
    \/ \E g \in Procs : Unlock(g)

SpecConc == InitConc /\ [][NextConc]_vars

(* ------------------------------ loggers ------------------------------- *)
\* An argument of type any: an Attr, a string or an int.
AttrArg(a) == [t |-> "Attr", a |-> a, s |-> <<>>, n |-> 0]
StringArg(s) == [t |-> "string", a |-> EmptyAttr, s |-> s, n |-> 0]
IntArg(n) == [t |-> "int", a |-> EmptyAttr, s |-> <<>>, n |-> n]

badKey == <<"!", "B", "A", "D", "K", "E", "Y">>

\* slog.AnyValue and slog.Any for the argument types above
AnyValue(x) ==
    CASE x.t = "string" -> StringValue(x.s)
      [] x.t = "int" -> IntValue(x.n)
      [] x.t = "Attr" -> [kind |-> "Any", v |-> [type |-> "Attr", n |-> 0]]
AnyAttr(k, x) == Attr(k, AnyValue(x))

\* argsToAttr: the Attr made of a prefix of args, and how many arguments it took
argsToAttr(args) ==
    LET x == Head(args)
    IN CASE x.t = "string" ->
                IF Len(args) = 1 THEN [attr |-> String(badKey, x.s), used |-> 1]
                ELSE [attr |-> AnyAttr(x.s, args[2]), used |-> 2]
         [] x.t = "Attr" -> [attr |-> x.a, used |-> 1]
         [] OTHER -> [attr |-> AnyAttr(badKey, x), used |-> 1]

RECURSIVE argsToAttrSlice(_)
argsToAttrSlice(args) ==
    IF args = <<>> THEN <<>>
    ELSE LET r == argsToAttr(args)
         IN <<r.attr>> \o argsToAttrSlice(Drop(args, r.used))

\* the text fmt prints for an operand with %v
Operand(x) == IF x.t = "string" THEN x.s ELSE Itoa(x.n)

\* fmt.Sprint: a space between two operands when neither is a string
RECURSIVE Sprint(_)
Sprint(args) ==
    IF args = <<>> THEN <<>>
    ELSE LET n == Len(args)
             sep == IF n > 1 /\ args[n].t # "string" /\ args[n - 1].t # "string"
                    THEN <<" ">> ELSE <<>>
         IN Sprint(SubSeq(args, 1, n - 1)) \o sep \o Operand(args[n])

RECURSIVE Extra(_)
Extra(args) ==
    IF args = <<>> THEN <<>>
    ELSE LET x == Head(args)
             ty == IF x.t = "string" THEN <<"s", "t", "r", "i", "n", "g">>
                   ELSE <<"i", "n", "t">>
         IN ty \o <<"=">> \o Operand(x)
            \o (IF Len(args) > 1 THEN <<",", " ">> ELSE <<>>) \o Extra(Tail(args))

\* fmt.Sprintf for a format without verbs: the operands are all left over
Sprintf(format, args) ==
    IF args = <<>> THEN format
    ELSE format \o <<"%", "!", "(", "E", "X", "T", "R", "A", " ">> \o Extra(args) \o <<")">>

lex == (LevelFatal - LevelInfo) * 4
\* Level.Level: the slog level of a Level
Level_Level(l) == lex - (LevelFatal - l) * 4

Writers == {"stderr", "w"}
LoggerLevels == {LevelInfo, LevelError}
LogMessages == {StringArg(<<"m">>), AttrArg(Int64(<<"b">>, 2))}
WithArgs == {<<StringArg(<<"k">>), IntArg(1)>>, <<IntArg(5)>>}
LogArgs == WithArgs \cup {<<>>, <<AttrArg(Int64(<<"a">>, 1))>>, <<StringArg(<<"k">>)>>}

\* New: level and output stored in the logger; the options of its handler hold
\* a leveler and a writer that point at this logger (owner)
New(self, lvl, w) ==
    [level |-> lvl, out |-> w, owner |-> self, parent |-> 0,
     attrs |-> <<>>, groups |-> <<>>]

\* clone: a new logger with copies of l's level and output around handler h,
\* whose options are those of l's handler
logger_clone(l, p, attrs, groups) ==
    [level |-> l.level, out |-> l.out, owner |-> l.owner, parent |-> p,
     attrs |-> attrs, groups |-> groups]

\* leveler.Level
leveler_Level(i) == Level_Level(loggers[loggers[i].owner].level)
\* writer.Write: the writer the bytes go to
writer_Write(i) == loggers[loggers[i].owner].out
\* TextHandler.Enabled behind logger.Enabled
logger_Enabled(i, lvl) == Level_Level(lvl) >= leveler_Level(i)

\* logger.log: the record handed to the handler
logger_log(lvl, m, args) ==
    LET rest == SelectSeq(args, LAMBDA x : x.t # "Attr")
        given == SelectSeq(args, LAMBDA x : x.t = "Attr")
        sprintArgs == IF m.t \in {"Attr", "string"} THEN rest ELSE <<m>> \o rest
        attrs == (IF m.t = "Attr" THEN <<m.a>> ELSE <<>>)
                 \o [k \in 1..Len(given) |-> given[k].a]
        format == IF m.t = "string" THEN m.s ELSE <<>>
    IN [Level |-> Level_Level(lvl),
        Message |-> IF format = <<>> THEN Sprint(sprintArgs)
                    ELSE Sprintf(format, sprintArgs),
        attrs |-> attrs]

InitLogger ==
    /\ InitCore(QuietConfig, {<<>>})
    /\ level = NoLevel
    /\ loggers = <<New(1, LevelInfo, "stderr")>>
    /\ logged = NoLog
    /\ arrays = <<>>
    /\ ovf = NoOverflow
    /\ pool = NoPool

logger_SetLevel(i, lvl) ==
    /\ loggers' = [loggers EXCEPT ![i].level = lvl]
    /\ logged' = NoLog
    /\ UNCHANGED <<core, level, arrays, ovf, pool>>

logger_SetOutput(i, w) ==
    /\ loggers' = [loggers EXCEPT ![i].out = w]
    /\ logged' = NoLog
    /\ UNCHANGED <<core, level, arrays, ovf, pool>>

logger_With(i, args) ==
    /\ Len(loggers) < MaxLoggers
    /\ args # <<>>
    /\ loggers' = Append(loggers,
          logger_clone(loggers[i], i, loggers[i].attrs \o argsToAttrSlice(args),
                       loggers[i].groups))
    /\ logged' = NoLog
    /\ UNCHANGED <<core, level, arrays, ovf, pool>>

logger_WithGroup(i, name) ==
    /\ Len(loggers) < MaxLoggers
    /\ name # <<>>
    /\ loggers' = Append(loggers,
          logger_clone(loggers[i], i, loggers[i].attrs, Append(loggers[i].groups, name)))
    /\ logged' = NoLog
    /\ UNCHANGED <<core, level, arrays, ovf, pool>>

logger_Log(i, lvl, m, args) ==
    /\ logged' = [logger |-> i, level |-> lvl, msg |-> m, args |-> args,
                  enabled |-> logger_Enabled(i, lvl),
                  output |-> loggers[i].out,
                  dest |-> writer_Write(i),
                  record |-> logger_log(lvl, m, args)]
    /\ UNCHANGED <<core, level, loggers, arrays, ovf, pool>>

NextLogger ==
    \/ \E i \in 1..Len(loggers), lvl \in LoggerLevels : logger_SetLevel(i, lvl)
    \/ \E i \in 1..Len(loggers), w \in Writers : logger_SetOutput(i, w)
    \/ \E i \in 1..Len(loggers), args \in WithArgs : logger_With(i, args)
    \/ \E i \in 1..Len(loggers), name \in GroupNames : logger_WithGroup(i, name)
    \/ \E i \in 1..Len(loggers), lvl \in LoggerLevels, m \in LogMessages, args \in LogArgs :
          logger_Log(i, lvl, m, args)

SpecLogger == InitLogger /\ [][NextLogger]_vars

(* ---------------------------- pooled buffers -------------------------- *)
\* SpecPool: Handle with its buffers.  pool.free holds the kinds of storage of
\* the buffers in the pool: "own", an array nothing else refers to, or "sDim",
\* the array of the package variable sDim.  pool.call[g] is the Handle call of
\* goroutine g: the storage of the buffers it holds, its deferred calls, how
\* often it acquired and released each buffer, its Write attempts and how it
\* returned.  pool.room is cap(sDim) - len(sDim), which the color package
\* decides.
PoolCap == 1024
SDimRooms == {0, 64}
PoolRecords == {1, 6}
PoolConfigs == [kind : {"Text", "Indent"}, hook : {"none"}, addSource : BOOLEAN]

NoCall ==
    [h |-> 0, buf |-> "none", src |-> "none", msg |-> "none", defers |-> <<>>,
     nbuf |-> 0, nsrc |-> 0, nmsg |-> 0, fbuf |-> 0, fsrc |-> 0, fmsg |-> 0,
     writes |-> 0, wrote |-> FALSE, werr |-> FALSE, ret |-> "none"]

InitPool ==
    /\ InitCore(PoolConfigs, {<<>>})
    /\ level = NoLevel
    /\ loggers = <<>>
    /\ logged = NoLog
    /\ arrays = <<>>
    /\ ovf = NoOverflow
    /\ pool \in {[room |-> n, free |-> {}, call |-> [g \in Procs |-> NoCall]] :
                   n \in SDimRooms}

\* allocBuf: a buffer of the pool, or a new one
allocBuf(free) == free \cup {"own"}
\* freeBuf: the buffer goes back to the pool with the storage it has now
freeBuf(free, kind) == free \cup {kind}

\* append(sl, n bytes...) for a slice known by where it lives: in place when
\* the capacity suffices, else in a new array
Grow(sl, n) ==
    IF n = 0 THEN sl
    ELSE IF sl.len + n <= sl.cap THEN [sl EXCEPT !.len = @ + n]
    ELSE [arr |-> "own", len |-> sl.len + n, cap |-> growslice(sl.cap, sl.len + n)]

\* prepend = append(append(sDim, []byte("  > ")...), cReset...)
TextPrepend(room) ==
    Grow(Grow([arr |-> "sDim", len |-> Len(sDim), cap |-> Len(sDim) + room], 4),
         Len(cReset))
\* indent = fmt.Appendf(indent, "%*s", (indentLevel+1)*4, "")
IndentPrepend(indentLevel) ==
    Grow([arr |-> "nil", len |-> 0, cap |-> 0], (indentLevel + 1) * 4)

RECURSIVE MessageStore(_, _, _, _, _)
\* the for loop of the MessageKey case, for where *msgbufp lives: at the
\* second line it becomes append(first, *msgbufp...), first being the prepend
\* or indent slice made there
MessageStore(msgbuf, prepend, lines, m, first) ==
    LET prepend1 == IF lines = 1 THEN first ELSE prepend
        msgbuf1 == Grow(IF lines = 1 THEN Grow(prepend1, msgbuf.len) ELSE msgbuf,
                        prepend1.len)
        index == IndexByte(m, NL)
        text == IF opts.kind = "Text"
                THEN (IF index # 0 THEN TrimSpace(SubSeq(m, 1, index - 1))
                      ELSE IF lines > 1 THEN TrimSpace(m) ELSE m)
                ELSE (IF index # 0 THEN SubSeq(m, 1, index - 1)
                      ELSE TrimSuffix(m, <<" ", "\r", NL>>))
        msgbuf2 == Grow(Grow(msgbuf1, Len(text)), 1)
    IN IF index = 0 THEN msgbuf2
       ELSE MessageStore(msgbuf2, prepend1, lines + 1, Drop(m, index), first)

\* the storage of *msgbufp when appendAttr returns, borrowed with storage kind
msgbufStore(kind, h, m) ==
    LET cap0 == IF kind = "sDim" THEN Len(sDim) + pool.room ELSE PoolCap
        end == MessageStore([arr |-> "pool", len |-> 0, cap |-> cap0],
                            [arr |-> "nil", len |-> 0, cap |-> 0], 0, m,
                            IF opts.kind = "Text" THEN TextPrepend(pool.room)
                            ELSE IndentPrepend(0))
    IN IF end.arr = "pool" THEN kind ELSE end.arr

DeferTwice(stack, call) == Append(Append(stack, call), call)

\* defer call
Defer(stack, call) == Append(stack, call)

mu_UnlockKept(mx, m) == mx

\* h.mu.Unlock()
mu_Unlock(mx, m) == [mx EXCEPT ![m] = 0]

poolFrame == <<opts, handlers, heap, snap, op, written, calls, panicked, msg, msgOut,
               sink, level, loggers, logged, arrays, ovf>>

Call(g) == pool.call[g]

\* bufp := allocBuf(); defer func() { *bufp = buf; freeBuf(bufp) }()
Begin(g, i, rec) ==
    /\ pc[g] = "idle"
    /\ \E kind \in allocBuf(pool.free) :
          pool' = [pool EXCEPT !.call[g] =
                      [NoCall EXCEPT !.h = i, !.buf = kind, !.nbuf = 1,
                                     !.defers = Defer(<<>>, "freeBuf")]]
    /\ job' = [job EXCEPT ![g] = [h |-> i, rec |-> rec, buf |-> <<>>]]
    /\ pc' = [pc EXCEPT ![g] = "begun"]
    /\ UNCHANGED <<poolFrame, mutexes, writing>>

\* appendAttr for the message: msgbufp := allocBuf(), and the loop over the lines
MsgAlloc(g) ==
    /\ \/ pc[g] = "begun" /\ (opts.kind = "Text" \/ ~opts.addSource)
       \/ pc[g] = "sourced"
    /\ \E kind \in allocBuf(pool.free) :
          pool' = [pool EXCEPT
                      !.call[g].msg = msgbufStore(kind, handlers[job[g].h],
                                                  Records[job[g].rec].msg),
                      !.call[g].nmsg = @ + 1]
    /\ pc' = [pc EXCEPT ![g] = "msg"]
    /\ UNCHANGED <<poolFrame, job, mutexes, writing>>

\* the deferred freeBuf(msgbufp) as appendAttr returns
MsgFree(g) ==
    /\ pc[g] = "msg"
    /\ pool' = [pool EXCEPT !.free = freeBuf(@, Call(g).msg),
                            !.call[g].msg = "none",
                            !.call[g].fmsg = @ + 1]
    /\ pc' = [pc EXCEPT ![g] = IF opts.kind = "Text" /\ opts.addSource
                               THEN "msgdone" ELSE "attrs"]
    /\ UNCHANGED <<poolFrame, job, mutexes, writing>>

\* srcbufp := allocBuf(); defer freeBuf(srcbufp)
SrcAlloc(g) ==
    /\ opts.addSource
    /\ \/ pc[g] = "begun" /\ opts.kind = "Indent"
       \/ pc[g] = "msgdone"
    /\ \E kind \in allocBuf(pool.free) :
          pool' = [pool EXCEPT !.call[g].src = kind,
                               !.call[g].nsrc = @ + 1,
                               !.call[g].defers = Defer(@, "freeSrc")]
    /\ pc' = [pc EXCEPT ![g] = IF opts.kind = "Indent" THEN "sourced" ELSE "attrs"]
    /\ UNCHANGED <<poolFrame, job, mutexes, writing>>

\* the rest of the rendering: the buffer is complete, or appendAttr panicked
Attrs(g) ==
    /\ pc[g] = "attrs"
    /\ LET st == render(handlers[job[g].h], heap, Records[job[g].rec])
       IN IF st.panic
          THEN /\ pc' = [pc EXCEPT ![g] = "panicking"]
               /\ UNCHANGED job
          ELSE /\ pc' = [pc EXCEPT ![g] = "rendered"]
               /\ job' = [job EXCEPT ![g].buf = st.buf]
    /\ UNCHANGED <<poolFrame, pool, mutexes, writing>>

\* h.mu.Lock(); defer h.mu.Unlock()
PoolLock(g) ==
    /\ pc[g] = "rendered"
    /\ mutexes[handlers[job[g].h].mu] = 0
    /\ mutexes' = [mutexes EXCEPT ![handlers[job[g].h].mu] = g]
    /\ pool' = [pool EXCEPT !.call[g].defers = Defer(@, "Unlock")]
    /\ pc' = [pc EXCEPT ![g] = "locked"]
    /\ UNCHANGED <<poolFrame, job, writing>>

\* h.out.Write(buf) is entered
PoolWriteBegin(g) ==
    /\ pc[g] = "locked"
    /\ writing' = writing \cup {g}
    /\ pool' = [pool EXCEPT !.call[g].writes = @ + 1]
    /\ pc' = [pc EXCEPT ![g] = "writing"]
    /\ UNCHANGED <<poolFrame, job, mutexes>>

\* Write returns, with an error or without; return err
PoolWriteEnd(g, err) ==
    /\ pc[g] = "writing"
    /\ writing' = writing \ {g}
    /\ pool' = [pool EXCEPT !.call[g].wrote = TRUE, !.call[g].werr = err]
    /\ pc' = [pc EXCEPT ![g] = "returning"]
    /\ UNCHANGED <<poolFrame, job, mutexes>>

\* the deferred calls run last in, first out, as Handle returns or panics; after
\* the last one the call is over
RunDeferred(g) ==
    /\ pc[g] \in {"returning", "panicking"}
    /\ LET c == Call(g)
           n == Len(c.defers)
           d == c.defers[n]
           rest == SubSeq(c.defers, 1, n - 1)
           ret == IF rest # <<>> THEN "none"
                  ELSE IF pc[g] = "panicking" THEN "panic"
                  ELSE IF c.werr THEN "err" ELSE "nil"
       IN /\ n > 0
          /\ mutexes' = IF d = "Unlock" THEN mu_Unlock(mutexes, handlers[job[g].h].mu)
                        ELSE mutexes
          /\ pool' = [pool EXCEPT
                 !.free = CASE d = "freeBuf" -> freeBuf(@, c.buf)
                            [] d = "freeSrc" -> freeBuf(@, c.src)
                            [] OTHER -> @,
                 !.call[g] = [c EXCEPT
                     !.defers = rest,
                     !.ret = ret,
                     !.buf = IF d = "freeBuf" THEN "none" ELSE @,
                     !.src = IF d = "freeSrc" THEN "none" ELSE @,
                     !.fbuf = IF d = "freeBuf" THEN @ + 1 ELSE @,
                     !.fsrc = IF d = "freeSrc" THEN @ + 1 ELSE @]]
          /\ pc' = [pc EXCEPT ![g] = IF rest = <<>> THEN "idle" ELSE @]
          /\ job' = [job EXCEPT ![g] = IF rest = <<>> THEN Idle ELSE @]
    /\ UNCHANGED <<poolFrame, writing>>

NextPool ==
    \/ \E i \in 1..Len(handlers), name \in GroupNames :
          Len(handlers) < MaxConc /\ WithGroup(i, name)
    \/ \E g \in Procs, i \in 1..Len(handlers), rec \in PoolRecords : Begin(g, i, rec)
    \/ \E g \in Procs : MsgAlloc(g)
    \/ \E g \in Procs : MsgFree(g)
    \/ \E g \in Procs : SrcAlloc(g)
    \/ \E g \in Procs : Attrs(g)
    \/ \E g \in Procs : PoolLock(g)
    \/ \E g \in Procs : PoolWriteBegin(g)
    \/ \E g \in Procs, err \in BOOLEAN : PoolWriteEnd(g, err)
    \/ \E g \in Procs : RunDeferred(g)

SpecPool == InitPool /\ [][NextPool]_vars

(* -------------------------- prefix loggers ---------------------------- *)
\* SpecPrefix: the loggers of New(prefix, Options).  A logger keeps its
\* attributes in a slice [arr, len, cap] over arrays; With and WithPrefix
\* append to the parent's slice, and so does a log call with Attr arguments.
AttrSize == 40

\* runtime.growslice for a []Attr
growsliceAttrs(oldcap, needed) ==
    roundupsize(AttrSize * (IF needed > 2 * oldcap THEN needed ELSE 2 * oldcap)) \div AttrSize

\* the attributes a slice holds
SliceAttrs(arrs, sl) == IF sl.len = 0 THEN <<>> ELSE SubSeq(arrs[sl.arr], 1, sl.len)

\* append(sl, xs...) on a []Attr: the arrays after it and the slice it returns
AppendAttrs(arrs, sl, xs) ==
    LET need == sl.len + Len(xs)
    IN IF xs = <<>> THEN [arrays |-> arrs, slice |-> sl]
       ELSE IF need <= sl.cap
       THEN LET old == arrs[sl.arr]
            IN [arrays |-> [arrs EXCEPT ![sl.arr] =
                               [k \in 1..Len(old) |->
                                   IF k > sl.len /\ k <= need THEN xs[k - sl.len]
                                   ELSE old[k]]],
                slice |-> [sl EXCEPT !.len = need]]
       ELSE LET c == growsliceAttrs(sl.cap, need)
            IN [arrays |-> Append(arrs, SliceAttrs(arrs, sl) \o xs
                                        \o [k \in 1..(c - need) |-> EmptyAttr]),
                slice |-> [arr |-> Len(arrs) + 1, len |-> need, cap |-> c]]

\* the slice of the variadic arguments of a call, kept by the logger made of it
Variadic(arrs, xs) ==
    IF xs = <<>> THEN [arrays |-> arrs, slice |-> NilSlice]
    ELSE [arrays |-> Append(arrs, xs),
          slice |-> [arr |-> Len(arrs) + 1, len |-> Len(xs), cap |-> Len(xs)]]

Prefixes == {<<>>, <<"q">>}
PrefixAttrs == {<<>>, <<Int64(<<"x">>, 1)>>, <<Int64(<<"x">>, 1), Int64(<<"y">>, 2)>>}
PrefixLevels == {LevelDebug, LevelInfo}
PrefixArgs == {<<>>, <<AttrArg(Int64(<<"z">>, 3))>>}

\* New(prefix, Options{Level, Attrs}); parent and own record the derivation
PrefixLogger_New(prefix, lvl, attrs, p, own) ==
    [prefix |-> prefix, level |-> lvl, attrs |-> attrs, parent |-> p, own |-> own]

InitPrefix ==
    /\ InitCore(QuietConfig, {<<>>})
    /\ level = NoLevel
    /\ loggers = <<PrefixLogger_New(<<"p">>, LevelInfo, NilSlice, 0, <<>>)>>
    /\ logged = NoLog
    /\ arrays = <<>>
    /\ ovf = NoOverflow
    /\ pool = NoPool

\* logger.Enabled of the prefix logger
PrefixLogger_Enabled(l, lvl) ==
    IF lvl >= LevelPanic THEN TRUE
    ELSE IF lvl >= LevelTrace THEN l.level <= lvl
    ELSE FALSE

\* logger.WithPrefix; With(attrs...) is WithPrefix("", attrs...)
PrefixLogger_WithPrefix(i, prefix, attrs) ==
    LET l == loggers[i]
        r == IF l.attrs.len > 0 THEN AppendAttrs(arrays, l.attrs, attrs)
             ELSE Variadic(arrays, attrs)
    IN /\ Len(loggers) < MaxPrefix
       /\ ~(prefix = <<>> /\ attrs = <<>>)
       /\ arrays' = r.arrays
       /\ loggers' = Append(loggers,
             PrefixLogger_New(IF prefix = <<>> THEN l.prefix ELSE prefix,
                              l.level, r.slice, i, attrs))
       /\ logged' = NoLog
       /\ UNCHANGED <<core, level, ovf, pool>>

\* logger.log of the prefix logger, format "": r.Attrs starts as l.attrs[:]
\* and every Attr argument is appended to it.  An array the append allocates
\* belongs to the record alone and is garbage after the call.
PrefixLogger_log(i, lvl, args) ==
    LET l == loggers[i]
        given == SelectSeq(args, LAMBDA x : x.t = "Attr")
        r == AppendAttrs(arrays, l.attrs, [k \in 1..Len(given) |-> given[k].a])
    IN IF ~PrefixLogger_Enabled(l, lvl)
       THEN /\ logged' = [logger |-> i, level |-> lvl, args |-> args, enabled |-> FALSE,
                          record |-> [Attrs |-> <<>>, Message |-> <<>>]]
            /\ UNCHANGED <<core, level, loggers, arrays, ovf, pool>>
       ELSE /\ arrays' = IF r.slice.arr = l.attrs.arr THEN r.arrays ELSE arrays
            /\ logged' = [logger |-> i, level |-> lvl, args |-> args, enabled |-> TRUE,
                          record |-> [Attrs |-> SliceAttrs(r.arrays, r.slice),
                                      Message |-> Sprint(SelectSeq(args,
                                                     LAMBDA x : x.t # "Attr"))]]
            /\ UNCHANGED <<core, level, loggers, ovf, pool>>

NextPrefix ==
    \/ \E i \in 1..Len(loggers), prefix \in Prefixes, attrs \in PrefixAttrs :
          PrefixLogger_WithPrefix(i, prefix, attrs)
    \/ \E i \in 1..Len(loggers), lvl \in PrefixLevels, args \in PrefixArgs :
          PrefixLogger_log(i, lvl, args)

SpecPrefix == InitPrefix /\ [][NextPrefix]_vars

(* ------------------------------ overflow ------------------------------ *)
\* SpecOverflow: one call overflow(s, n), a step per loop iteration.  ovf holds
\* the locals of the call: s, l, i, j, where it stands (pc) and what it returned
\* (out); s0 is the argument as passed.  An int wraps at IntBits bits.
OverflowAlphabet == {"a", ":"}
OverflowStrings == UNION {[1..k -> OverflowAlphabet] : k \in 0..MaxStr}

MaxInt == 2 ^ (IntBits - 1) - 1
MinInt == 0 - 2 ^ (IntBits - 1)
\* j++ on an int
Incr(k) == IF k = MaxInt THEN MinInt ELSE k + 1

\* strings.LastIndexAny, 1-based; 0 when no character of cs occurs (Go: -1)
LastIndexAny(s, cs) ==
    IF \E k \in 1..Len(s) : s[k] \in cs
    THEN CHOOSE k \in 1..Len(s) : s[k] \in cs /\ \A m \in (k + 1)..Len(s) : s[m] \notin cs
    ELSE 0

InitOverflow ==
    /\ InitCore(QuietConfig, {<<>>})
    /\ level = NoLevel
    /\ loggers = <<>>
    /\ logged = NoLog
    /\ arrays = <<>>
    /\ pool = NoPool
    /\ ovf \in {[pc |-> "call", s0 |-> s, s |-> s, n |-> n, l |-> 0, i |-> 0, j |-> 0,
                 out |-> <<>>] : s \in OverflowStrings, n \in 0..MaxWidth}

overflowFrame == <<core, level, loggers, logged, arrays, pool>>

\* l := len(s) and the branches before the loop: return s, pad, or choose j
overflow_enter ==
    /\ ovf.pc = "call"
    /\ LET l == Len(ovf.s)
           j0 == LastIndexAny(ovf.s, {".", ":"}) - 1
           j == IF j0 <= 0 \/ l - j0 >= ovf.n THEN l - 1 ELSE j0
       IN ovf' = IF l = ovf.n THEN [ovf EXCEPT !.pc = "done", !.l = l, !.out = ovf.s]
                 ELSE IF l < ovf.n THEN [ovf EXCEPT !.pc = "pad", !.l = l]
                 ELSE [ovf EXCEPT !.pc = "loop", !.l = l, !.i = 0, !.j = j]
    /\ UNCHANGED overflowFrame

\* for l < n { s += " "; l++ }; return s
overflow_pad ==
    /\ ovf.pc = "pad"
    /\ ovf' = IF ovf.l < ovf.n
              THEN [ovf EXCEPT !.s = Append(@, " "), !.l = @ + 1]
              ELSE [ovf EXCEPT !.pc = "done", !.out = ovf.s]
    /\ UNCHANGED overflowFrame

\* return s[:i] + "..." + s[j:], which panics when a bound is out of range
overflow_return(o) ==
    IF o.i < 0 \/ o.i > o.l \/ o.j < 0 \/ o.j > o.l
    THEN [o EXCEPT !.pc = "panic"]
    ELSE [o EXCEPT !.pc = "done",
                   !.out = SubSeq(o.s, 1, o.i) \o <<".", ".", ".">> \o Drop(o.s, o.j)]

\* one iteration of for i < j { ... }, up to the inner loop
overflow_iterate ==
    /\ ovf.pc = "loop"
    /\ LET x == ovf.i + 3 + (ovf.l - ovf.j)
           i1 == ovf.i + 1
           i2 == ovf.i - (x - ovf.n)
       IN ovf' = IF ~(ovf.i < ovf.j) \/ x = ovf.n THEN overflow_return(ovf)
                 ELSE IF x < ovf.n
                 THEN [ovf EXCEPT !.i = i1, !.j = IF ovf.l - ovf.j < i1 THEN @ - 1 ELSE @]
                 ELSE [ovf EXCEPT !.i = i2, !.pc = "spin"]
    /\ UNCHANGED overflowFrame

\* for i < 0 { j++ }
overflow_spin ==
    /\ ovf.pc = "spin"
    /\ ovf' = IF ovf.i < 0 THEN [ovf EXCEPT !.j = Incr(@)]
              ELSE [ovf EXCEPT !.pc = "loop"]
    /\ UNCHANGED overflowFrame

NextOverflow ==
    \/ overflow_enter
    \/ overflow_pad
    \/ overflow_iterate
    \/ overflow_spin

\* the call keeps running while it can
SpecOverflow == InitOverflow /\ [][NextOverflow]_vars /\ WF_vars(NextOverflow)

(* ------------------------------- claims ------------------------------- *)

\* C1: deriving formatters from h, or from formatters derived from h, never
\* changes what h.Handle writes for a record: every formatter of the tree still
\* renders ProbeRecord to the bytes it rendered when it was created, and a
\* Handle call for ProbeRecord writes exactly those bytes.
C1_ParentOutputUnchanged ==
    /\ \A i \in 1..Len(handlers) :
          Outcome(render(handlers[i], heap, ProbeRecord)) = snap[i]
    /\ (op.h # 0 /\ op.rec = 1 /\ ~panicked) => written = snap[op.h].buf

\* C1 witness: two siblings derived by WithAttrs from a parent whose prefix has
\* spare capacity, and the elder one has just handled ProbeRecord.
C1_Witness ==
    \E j, k \in 1..Len(handlers) :
        /\ j < k
        /\ handlers[j].parent = handlers[k].parent
        /\ handlers[j].parent # 0
        /\ handlers[j].how = "WithAttrs" /\ handlers[k].how = "WithAttrs"
        /\ handlers[j].arg # handlers[k].arg
        /\ LET p == handlers[handlers[j].parent].preformatted IN p.cap > p.len
        /\ op = [h |-> j, rec |-> 1]
        /\ written = snap[j].buf

\* the lines of a message: its pieces between newlines
RECURSIVE SplitLines(_)
SplitLines(m) ==
    IF IndexByte(m, NL) = 0 THEN <<m>>
    ELSE <<SubSeq(m, 1, IndexByte(m, NL) - 1)>> \o SplitLines(Drop(m, IndexByte(m, NL)))

\* s without its leading and trailing whitespace
Stripped(s) ==
    LET ink == {i \in 1..Len(s) : ~IsSpace(s[i])}
    IN IF ink = {} THEN <<>>
       ELSE SubSeq(s, CHOOSE i \in ink : \A j \in ink : i <= j,
                      CHOOSE i \in ink : \A j \in ink : i >= j)

Count(s, c) == Cardinality({i \in 1..Len(s) : s[i] = c})

C4_MultiLineEndsWithNewline ==
    msgOut.by = "Text" =>
        LET text == SubSeq(msgOut.buf, 2, Len(msgOut.buf) - 1)
        IN IF Contains(msg, NL) THEN text[Len(text)] = NL
           ELSE text = msg \o <<" ">>

\* C2: every formatter of a tree shares the root's mutex; a goroutine inside
\* the sink's Write holds it, so no two Writes overlap, and the sink receives
\* each record as one contiguous run: the two pieces of a Write are adjacent
\* and together are the whole rendered record.
C2_SerializedWrites ==
    /\ \A i \in 1..Len(handlers) : handlers[i].mu = handlers[1].mu
    /\ \A g \in writing : mutexes[handlers[job[g].h].mu] = g
    /\ Cardinality(writing) <= 1
    /\ \A k \in 1..Len(sink) :
          IF sink[k].part = 1
          THEN k < Len(sink) =>
                 /\ sink[k + 1].part = 2
                 /\ sink[k + 1].g = sink[k].g
                 /\ sink[k].bytes \o sink[k + 1].bytes
                       = render(handlers[sink[k].h], heap, Records[sink[k].rec]).buf
          ELSE k > 1 /\ sink[k - 1].part = 1 /\ sink[k - 1].g = sink[k].g

\* C2 witness: one goroutine is inside Write on a derived formatter while the
\* other, logging through another formatter of the tree, waits for the mutex,
\* and a complete record has already reached the sink.
C2_Witness ==
    \E g, f \in Procs :
        /\ pc[g] = "writing" /\ pc[f] = "rendered"
        /\ job[g].h # job[f].h
        /\ handlers[job[g].h].parent # 0
        /\ Len(sink) = 3

\* C5: in the indented pipeline a group with a key and members renders as a
\* header line "<name>:" and one line per member, each member line at depth d
\* beginning with 4*d spaces followed by "key: value"; DocAttrs logged through
\* a formatter at depth 0 therefore ends in the lines a: 1, g:, four spaces and
\* b: 2, c: 3.
C5_MembersIndentedUnderHeader ==
    (/\ op.h # 0 /\ op.rec = 3 /\ ~panicked
     /\ opts.kind = "Indent" /\ opts.hook # "str"
     /\ handlers[op.h].indentLevel = 0
     /\ handlers[op.h].unopenedGroups = <<>>) =>
        IsSuffix(<<"a", ":", " ", "1", NL>> \o <<"g", ":", NL>>
                 \o Spaces(4) \o <<"b", ":", " ", "2", NL>>
                 \o <<"c", ":", " ", "3", NL>> \o <<"-", "-", "-", NL>>,
                 written)

\* C6: a group without members contributes no bytes, at any depth and indent
\* level, in both pipelines: a record holding Group g(Group e(), x=1) is written
\* as the same record holding Group g(x=1).
C6_EmptyGroupNoBytes ==
    (op.h # 0 /\ op.rec = 4 /\ ~panicked) =>
        written = render(handlers[op.h], heap,
                         [Records[4] EXCEPT
                             !.attrs = <<Group(<<"g">>, <<Int64(<<"x">>, 1)>>)>>]).buf

\* C7: a user attribute whose key is a reserved key is rendered by the ordinary
\* key/value path: the record attribute msg="x" ends the output as a quoted
\* key/value pair, in the flat pipeline behind the dotted open groups.
C7_ReservedKeyOrdinary ==
    (op.h # 0 /\ op.rec = 5 /\ ~panicked /\ opts.hook # "str") =>
        IF opts.kind = "Text"
        THEN IsSuffix(DottedGroups(handlers[op.h].groups) \o MessageKey \o <<"=">>
                      \o Quote(<<"x">>) \o <<" ">> \o cReset \o <<NL>>,
                      written)
        ELSE (handlers[op.h].indentLevel + Len(handlers[op.h].unopenedGroups) = 0) =>
                 IsSuffix(MessageKey \o <<":", " ">> \o Quote(<<"x">>) \o <<NL>>
                          \o <<"-", "-", "-", NL>>,
                          written)

\* C8: Handle and WithAttrs of both pipelines never panic, whatever the record,
\* the user attributes and the rewrite hook.
C8_NoPanic == ~panicked

\* the group names opened by WithGroup on the way from the root to formatter i
RECURSIVE OpenNames(_)
OpenNames(i) ==
    IF i = 0 THEN <<>>
    ELSE OpenNames(handlers[i].parent)
         \o (IF handlers[i].how = "WithGroup" THEN <<handlers[i].arg>> ELSE <<>>)

\* C9: the rewrite hook receives the names of all open groups that contain the
\* attribute, and the attribute with its own key: for DocAttrs it is called with
\* (open, a=1), (open + g, b=2), (open, c=3), and for the attribute c=3 logged
\* through a formatter derived by WithGroup, with or without a later WithAttrs,
\* with the group names in the list.
C9_HookSeesOpenGroups ==
    (op.h # 0 /\ opts.hook # "none" /\ ~panicked) =>
        LET n == Len(calls)
            open == OpenNames(op.h)
        IN /\ op.rec = 3 =>
                 SubSeq(calls, n - 2, n)
                    = << HookCall(open, Int64(<<"a">>, 1)),
                         HookCall(open \o << <<"g">> >>, Int64(<<"b">>, 2)),
                         HookCall(open, Int64(<<"c">>, 3)) >>
           /\ op.rec = 1 => calls[n] = HookCall(open, Int64(<<"c">>, 3))

\* the open-group list of a formatter
OpenGroups(h) == IF opts.kind = "Text" THEN h.groups ELSE h.unopenedGroups

\* C10 as stated: the formatter WithAttrs returns has an empty open-group list.
C10_OpenListEmptied ==
    \A i \in 1..Len(handlers) :
        handlers[i].how = "WithAttrs" => OpenGroups(handlers[i]) = <<>>

\* the header lines of groups opened at an indent level
Headers(gs, lvl) ==
    Flatten([k \in 1..Len(gs) |-> Spaces(4 * (lvl + k - 1)) \o gs[k] \o <<":", NL>>])

\* the named groups among the attributes preformatted on the way to formatter i
RECURSIVE GroupAttrs(_)
GroupAttrs(i) ==
    IF i = 0 THEN 0
    ELSE GroupAttrs(handlers[i].parent)
         + (IF handlers[i].how = "WithAttrs"
            THEN Cardinality({k \in 1..Len(AttrLists[handlers[i].arg]) :
                                 AttrLists[handlers[i].arg][k].value.kind = "Group"})
            ELSE 0)

\* the header lines "<name>:" in an output
HeaderLines(s) == Cardinality({k \in 1..(Len(s) - 1) : s[k] = ":" /\ s[k + 1] = NL})

\* C10 (amended): WithAttrs with a non-empty list keeps the receiver's prefix
\* and extends it.  In the indented pipeline it first appends one header line
\* per open group, raises the indent level by their number and empties the
\* open list; in the flat pipeline the group list stays as it is and is dotted
\* in front of every attribute key.  Either way every group name is applied
\* exactly once to an attribute logged later.
C10_GroupsAppliedOnce ==
    /\ \A i \in 1..Len(handlers) :
          handlers[i].how = "WithAttrs" =>
              LET p == handlers[handlers[i].parent]
                  pre == SliceBytes(heap, handlers[i].preformatted)
              IN IF opts.kind = "Text"
                 THEN /\ handlers[i].groups = p.groups
                      /\ IsPrefix(SliceBytes(heap, p.preformatted), pre)
                 ELSE /\ handlers[i].unopenedGroups = <<>>
                      /\ handlers[i].indentLevel = p.indentLevel + Len(p.unopenedGroups)
                      /\ IsPrefix(SliceBytes(heap, p.preformatted)
                                  \o Headers(p.unopenedGroups, p.indentLevel), pre)
    /\ (op.h # 0 /\ op.rec = 1 /\ ~panicked) =>
          IF opts.kind = "Text"
          THEN LET tail == DottedGroups(OpenNames(op.h)) \o <<"c", "=", "3", " ">>
                           \o cReset \o <<NL>>
               IN /\ IsSuffix(tail, written)
                  /\ written[Len(written) - Len(tail)] # "."
          ELSE HeaderLines(written) = Len(OpenNames(op.h)) + GroupAttrs(op.h)

\* C10 witness: a formatter derived by WithGroup and then WithAttrs in the
\* indented pipeline has just handled ProbeRecord, and the group's header line
\* is in what it wrote.
C10_Witness ==
    /\ opts.kind = "Indent"
    /\ op.h # 0 /\ op.rec = 1
    /\ handlers[op.h].how = "WithAttrs"
    /\ handlers[handlers[op.h].parent].how = "WithGroup"
    /\ HeaderLines(written) >= 1
    /\ handlers[op.h].indentLevel = 1

\* the attributes of a record that the rewrite hook does not discard
Kept(r) ==
    {k \in 1..Len(r.attrs) : ~(opts.hook = "drop" /\ r.attrs[k].key = <<"c">>)}

\* C11: a formatter obtained by WithGroup has its parent's prefix buffer, and a
\* record handled through a formatter with open groups shows nothing of those
\* groups when no attribute is rendered inside them: it is written as by the
\* same formatter without the open groups.
C11_UnusedGroupEmitsNothing ==
    /\ \A i \in 1..Len(handlers) :
          handlers[i].how = "WithGroup" =>
              handlers[i].preformatted = handlers[handlers[i].parent].preformatted
    /\ (op.h # 0 /\ ~panicked /\ Kept(Records[op.rec]) = {}) =>
          written = render([handlers[op.h] EXCEPT !.groups = <<>>,
                                                  !.unopenedGroups = <<>>],
                           heap, Records[op.rec]).buf

\* C16: in every indented formatter reachable from NewIndentHandler,
\* indentLevel is the number of WithGroup names written as header lines into
\* the prefix, the unopened groups are the most recent WithGroup names, and the
\* WithGroup calls on the path from the root number indentLevel plus the
\* unopened groups.
C16_IndentLevelCountsOpened ==
    opts.kind = "Indent" =>
        \A i \in 1..Len(handlers) :
            LET h == handlers[i]
                names == OpenNames(i)
            IN /\ Len(names) = h.indentLevel + Len(h.unopenedGroups)
               /\ h.unopenedGroups = SubSeq(names, h.indentLevel + 1, Len(names))
               /\ HeaderLines(SliceBytes(heap, h.preformatted)) - GroupAttrs(i)
                     = h.indentLevel

\* C16 witness: an indented formatter with one group opened into its prefix by
\* WithAttrs and a second group still unopened.
C16_Witness ==
    /\ opts.kind = "Indent"
    /\ \E i \in 1..Len(handlers) :
          /\ handlers[i].indentLevel = 1
          /\ handlers[i].unopenedGroups = << <<"g">> >>
          /\ handlers[i].how = "WithGroup"
          /\ HeaderLines(SliceBytes(heap, handlers[i].preformatted)) >= 1

\* C15: Level text round-trips: for every Level, named or outside the named
\* range, unmarshalling its JSON form and its text form succeeds and yields the
\* Level again.
C15_LevelTextRoundTrips ==
    /\ level.json.done => (~level.json.err /\ level.json.l = level.l)
    /\ level.text.done => (~level.text.err /\ level.text.l = level.l)


\* C17: for every logger, derived ones included, Enabled(level) is true exactly
\* when level is at least the level last set on that same logger, whatever is
\* set on its parent or on the loggers derived from it.
C17_EnabledFollowsOwnLevel ==
    \A i \in 1..Len(loggers), lvl \in LoggerLevels :
        logger_Enabled(i, lvl) <=> lvl >= loggers[i].level

\* C18: a log call that emits a record writes it to the writer the same logger's
\* Output() returns at that moment.
C18_WrittenToOwnOutput ==
    (logged.logger # 0 /\ logged.enabled) => logged.dest = logged.output

\* C14: the attributes of the record a log call emits are those made of its
\* args as documented: an Attr as is, a string with the argument after it as
\* key and value, anything else under "!BADKEY".
C14_ArgsBecomeAttrs ==
    (logged.logger # 0 /\ logged.enabled /\ logged.msg.t = "string") =>
        logged.record.attrs = argsToAttrSlice(logged.args)


\* the attributes a prefix logger was given: those of its parent, then its own
RECURSIVE Given(_)
Given(i) == IF i = 0 THEN <<>> ELSE Given(loggers[i].parent) \o loggers[i].own

\* C20: every prefix logger holds exactly its parent's attributes followed by
\* its own, whatever was derived or logged since it was made, and a log call
\* emits those followed by its Attr arguments.
C20_AttributeListsIndependent ==
    /\ \A i \in 1..Len(loggers) : SliceAttrs(arrays, loggers[i].attrs) = Given(i)
    /\ (logged.logger # 0 /\ logged.enabled) =>
          logged.record.Attrs =
              Given(logged.logger)
              \o [k \in 1..Len(logged.args) |-> logged.args[k].a]


\* C12: a Handle call whose Write failed made exactly one Write attempt and
\* returned that error (and one whose Write succeeded returned nil), and the
\* mutex is only ever held by a call that has still to run its deferred Unlock,
\* so once the call is over the formatters of the tree can write again.
C12_WriteFailureReturned ==
    /\ \A g \in Procs :
          LET c == pool.call[g]
          IN /\ c.writes <= 1
             /\ c.ret = "err" => (c.writes = 1 /\ c.werr)
             /\ c.ret = "nil" => (c.writes = 1 /\ c.wrote /\ ~c.werr)
             /\ c.ret = "panic" => c.writes = 0
    /\ \A m \in DOMAIN mutexes :
          mutexes[m] # 0 =>
              \E k \in 1..Len(pool.call[mutexes[m]].defers) :
                  pool.call[mutexes[m]].defers[k] = "Unlock"

\* a call through one formatter has returned the error of its Write, and a call
\* through another formatter of the tree is in its Write
C12_Witness ==
    \E g \in Procs, g2 \in Procs :
        /\ pc[g] = "idle" /\ pool.call[g].ret = "err"
        /\ pc[g2] = "writing" /\ pool.call[g2].h # pool.call[g].h

\* C19: in both pipelines every buffer of a Handle call is acquired at most
\* once and released as often as it was acquired by the time the call is over,
\* whether it returns or panics, and the record buffer is released only once
\* the Write has returned (or the call panicked before it), never during it.
C19_BuffersFreedOnce ==
    \A g \in Procs :
        LET c == pool.call[g]
        IN /\ c.nbuf <= 1 /\ c.nsrc <= 1 /\ c.nmsg <= 1
           /\ c.fbuf <= c.nbuf /\ c.fsrc <= c.nsrc /\ c.fmsg <= c.nmsg
           /\ c.ret # "none" => (c.fbuf = c.nbuf /\ c.fsrc = c.nsrc /\ c.fmsg = c.nmsg)
           /\ c.ret \in {"nil", "err"} =>
                 (c.nbuf = 1 /\ c.nmsg = 1 /\ c.nsrc = (IF opts.addSource THEN 1 ELSE 0))
           /\ c.fbuf = 1 => (g \notin writing /\ (c.wrote \/ c.writes = 0))
           /\ c.fbuf = 1 => \A k \in 1..Len(c.defers) : c.defers[k] # "Unlock"

\* one call has returned after its Write with all three buffers released, and
\* another has panicked with its buffers released
C19_Witness ==
    \E g \in Procs, g2 \in Procs :
        /\ pool.call[g].ret = "err" /\ pool.call[g].fbuf = 1
        /\ pool.call[g].fsrc = 1 /\ pool.call[g].fmsg = 1
        /\ pool.call[g2].ret = "panic" /\ pool.call[g2].fbuf = 1 /\ pool.call[g2].fsrc = 1

OverflowShape(s, n, out) ==
    IF Len(s) = n THEN out = s
    ELSE IF Len(s) < n THEN out = s \o Spaces(n - Len(s))
    ELSE \E a \in 0..Len(s), b \in 0..Len(s) :
            out = SubSeq(s, 1, a) \o <<".", ".", ".">> \o Drop(s, b)

\* C21: every call overflow(s, n) with n >= 0 returns, and what it returns has
\* exactly n bytes: s, s padded with spaces, or head + "..." + tail.
C21_OverflowReturnsWidth ==
    /\ <>(ovf.pc = "done")
    /\ [](ovf.pc = "done" => (Len(ovf.out) = ovf.n /\ OverflowShape(ovf.s0, ovf.n, ovf.out)))

====
